---- MODULE Spec2Model ----
(***************************************************************************)
(* A model of zapx's stackdriver core (stackdriver.go) and of its slack    *)
(* notifier (sendSlackNotification): the field classifier parseFields, the *)
(* derived cores built by With, Write and Sync, and the notification       *)
(* goroutines tracked by each core's sync.WaitGroup.                       *)
(*                                                                         *)
(* Go strings are modelled as sequences of chunks, so that the empty       *)
(* string is <<>>, concatenation is \o and strings.HasPrefix/TrimPrefix    *)
(* are computed on the chunks.                                             *)
(***************************************************************************)
EXTENDS Integers, Sequences, FiniteSets, Bags, TLC

VARIABLES
    cores,     \* the stackdriver structs allocated so far; cores[1] is the one Zap() builds
    derived,   \* history: derived[i] = which core With was called on, and with which fields
    slackWG,   \* slackWG[i]: the counter of cores[i].slackWG
    tasks,     \* the sendSlackNotification goroutines that have not returned yet
    wr,        \* the Write call of the writer goroutine (the last one, once it returned)
    sy,        \* the Sync call of the flusher goroutine (the last one, once it returned)
    crashed,   \* a goroutine panicked: the process is gone
    grpclog    \* the kinds of messages written to grpclog so far

vars == <<cores, derived, slackWG, tasks, wr, sy, crashed, grpclog>>

----------------------------------------------------------------------------
(* Bounds of the model. *)

\* cores allocated in a run (Zap's core and the ones With derives)
MaxCores == 3
\* fields passed to the With calls of a run plus to the current Write call
MaxFields == 3
\* notification goroutines running at a time
MaxTasks == 2
\* fields of a With or Write call in Spec and SpecSync
MaxDirectiveFields == 1
\* fields of a Write call in SpecRender, next to its slack field
MaxRenderFields == 3

----------------------------------------------------------------------------
(* Strings. *)

Str(chunk) == <<chunk>>

EmptyStr == <<>>

HasPrefix(s, prefix) ==
    /\ Len(s) >= Len(prefix)
    /\ SubSeq(s, 1, Len(prefix)) = prefix

TrimPrefix(s, prefix) ==
    IF HasPrefix(s, prefix) THEN SubSeq(s, Len(prefix) + 1, Len(s)) ELSE s

----------------------------------------------------------------------------
(* stackdriver.go: the reserved keys and the slack directive. *)

logKeySlackNotification == Str("zapx.slack")

logKeyContextInfo == Str("zapx.context")

logKeyLabelPrefix == Str("zapx.label#")

defaultSlack == 0

enableSlack == 1

disableSlack == 2

----------------------------------------------------------------------------
(* zapcore.Field and the zap constructors the code uses. *)

NoInterface == [kind |-> "nil"]

zapString(key, val) ==
    [Key |-> key, Type |-> "StringType", Integer |-> 0, String |-> val,
     Interface |-> NoInterface]

zapBool(key, val) ==
    [Key |-> key, Type |-> "BoolType", Integer |-> IF val THEN 1 ELSE 0,
     String |-> EmptyStr, Interface |-> NoInterface]

zapInt(key, val) ==
    [Key |-> key, Type |-> "Int64Type", Integer |-> val, String |-> EmptyStr,
     Interface |-> NoInterface]

zapObject(key, val) ==
    [Key |-> key, Type |-> "ObjectMarshalerType", Integer |-> 0,
     String |-> EmptyStr, Interface |-> val]

zapReflect(key, val) ==
    [Key |-> key, Type |-> "ReflectType", Integer |-> 0, String |-> EmptyStr,
     Interface |-> val]

zapError(key, err) ==
    [Key |-> key, Type |-> "ErrorType", Integer |-> 0, String |-> EmptyStr,
     Interface |-> err]

\* zapx.go: Label and Slack
Label(key, val) == zapString(logKeyLabelPrefix \o key, val)

SlackOn == zapBool(logKeySlackNotification, TRUE)

SlackTo(url) == zapString(logKeySlackNotification, url)

----------------------------------------------------------------------------
(* zapx.go: the objects Write attaches to every entry. *)

labelsKey == Str("logging.googleapis.com/labels")

sourceLocationKey == Str("logging.googleapis.com/sourceLocation")

serviceContextKey == Str("serviceContext")

contextKey == Str("context")

\* utils.go: reportLocationFromEntry
reportLocationFromEntry(ent) ==
    IF ~ent.Caller.Defined
    THEN [kind |-> "reportLocation", filePath |-> EmptyStr, lineNumber |-> 0,
          functionName |-> EmptyStr]
    ELSE [kind |-> "reportLocation", filePath |-> ent.Caller.File,
          lineNumber |-> ent.Caller.Line, functionName |-> ent.Caller.Function]

\* utils.go: sourceLocationFromEntry
sourceLocationFromEntry(ent) ==
    IF ~ent.Caller.Defined
    THEN [kind |-> "sourceLocation", file |-> EmptyStr, line |-> 0,
          function |-> EmptyStr]
    ELSE [kind |-> "sourceLocation", file |-> ent.Caller.File,
          line |-> ent.Caller.Line, function |-> ent.Caller.Function]

errorReportingContext(rloc, user) ==
    [kind |-> "errorReportingContext", user |-> user, reportLocation |-> rloc]

\* the option.errorParser an application may install: it turns the errors it
\* knows into an object and declines the others
errorPraser(s, err) ==
    [obj |-> [kind |-> "parsedError", of |-> err.msg], ok |-> err.known]

----------------------------------------------------------------------------
(* stackdriver.parseFields. acc is the state of the loop: the named results *)
(* fs, user, sendSlack, slackURL and the local labels.                      *)

parseLabel(f, acc) ==
    LET key == TrimPrefix(f.Key, logKeyLabelPrefix)
        val == f.String
    IN  [acc EXCEPT !.labels = Append(@, zapString(key, val))]

\* a classifier that takes the user from a field of any kind
parseUserAnyKind(f, acc) == [acc EXCEPT !.user = f.String]

parseUser(f, acc) ==
    IF f.Type = "StringType" THEN [acc EXCEPT !.user = f.String] ELSE acc

parseStackTrace(f, msg, acc) ==
    LET f2 == IF f.Type = "StringType" /\ Len(msg) > 0
              THEN [f EXCEPT !.String = msg[1] \o Str("\n") \o f.String]
              ELSE f
    IN  [acc EXCEPT !.fs = Append(@, f2)]

parseContextInfo(f, acc) ==
    IF f.Interface.kind = "contextInfo"
    THEN LET info == f.Interface
             trace == IF info.IsSampled
                      THEN << zapBool(Str("logging.googleapis.com/trace_sampled"), TRUE),
                              zapString(Str("logging.googleapis.com/trace"), info.TraceID),
                              zapString(Str("logging.googleapis.com/spanId"), info.SpanID) >>
                      ELSE <<>>
             method == IF info.GrpcMethod # EmptyStr
                       THEN << zapString(Str("grpc_method"), info.GrpcMethod) >>
                       ELSE <<>>
             request == IF info.RequestID # EmptyStr
                        THEN << zapString(Str("request_id"), info.RequestID) >>
                        ELSE <<>>
         IN  [acc EXCEPT !.fs = @ \o trace \o method \o request]
    ELSE acc

parseSlack(s, f, acc) ==
    IF f.Type = "BoolType"
    THEN IF f.Integer = 1
         THEN [acc EXCEPT !.sendSlack = enableSlack, !.slackURL = s.slackURL]
         ELSE [acc EXCEPT !.sendSlack = disableSlack]
    ELSE IF f.Type = "StringType"
         THEN [acc EXCEPT !.sendSlack = enableSlack, !.slackURL = f.String]
         ELSE acc

parseDefault(s, f, acc) ==
    IF /\ s.errorPraser
       /\ f.Type = "ErrorType"
       /\ f.Interface.kind = "error"
       /\ errorPraser(s, f.Interface).ok
    THEN [acc EXCEPT !.fs = Append(@, zapObject(f.Key, errorPraser(s, f.Interface).obj))]
    ELSE [acc EXCEPT !.fs = Append(@, f)]

parseField(s, f, msg, acc) ==
    IF HasPrefix(f.Key, logKeyLabelPrefix) THEN parseLabel(f, acc)
    ELSE IF f.Key = Str("user") THEN parseUser(f, acc)
    ELSE IF f.Key = Str("stack_trace") THEN parseStackTrace(f, msg, acc)
    ELSE IF f.Key = logKeyContextInfo THEN parseContextInfo(f, acc)
    ELSE IF f.Key = logKeySlackNotification THEN parseSlack(s, f, acc)
    ELSE parseDefault(s, f, acc)

RECURSIVE parseLoop(_, _, _, _)
parseLoop(s, fields, msg, acc) ==
    IF fields = <<>> THEN acc
    ELSE parseLoop(s, Tail(fields), msg, parseField(s, Head(fields), msg, acc))

parseLabels(acc) ==
    IF Len(acc.labels) # 0
    THEN Append(acc.fs, zapObject(labelsKey, [kind |-> "labels", fields |-> acc.labels]))
    ELSE acc.fs

parseFields(s, fields, msg) ==
    LET acc == parseLoop(s, fields, msg,
                         [user |-> EmptyStr, labels |-> <<>>, fs |-> <<>>,
                          sendSlack |-> defaultSlack, slackURL |-> EmptyStr])
    IN  [user |-> acc.user, fs |-> parseLabels(acc), sendSlack |-> acc.sendSlack,
         slackURL |-> acc.slackURL]

----------------------------------------------------------------------------
(* stackdriver.With: the struct it allocates. enableSlack is not among the *)
(* fields of the composite literal, so it starts from Go's zero value.     *)

withUser(s, user) == IF user = EmptyStr THEN s.user ELSE user

\* a With that puts the fields of its call before the inherited ones
withFieldsCallFirst(s, fs) == fs \o s.fields

withFields(s, fs) == s.fields \o fs

withLiteral(s, user, newFileds) ==
    [enableSlack |-> FALSE, user |-> user, errorPraser |-> s.errorPraser,
     slackURL |-> s.slackURL, fields |-> newFileds, projectID |-> s.projectID,
     svcCtx |-> s.svcCtx]

withSlackURL(news, slackURL) ==
    IF slackURL # EmptyStr THEN [news EXCEPT !.slackURL = slackURL] ELSE news

\* a With that enables on either directive
withSendSlackBoth(news, sendSlack) ==
    IF sendSlack = disableSlack THEN [news EXCEPT !.enableSlack = TRUE]
    ELSE IF sendSlack = enableSlack THEN [news EXCEPT !.enableSlack = TRUE]
    ELSE news

withSendSlack(news, sendSlack) ==
    IF sendSlack = disableSlack THEN [news EXCEPT !.enableSlack = FALSE]
    ELSE IF sendSlack = enableSlack THEN [news EXCEPT !.enableSlack = TRUE]
    ELSE news

WithCore(s, fields) ==
    LET p == parseFields(s, fields, <<>>)
        news == withLiteral(s, withUser(s, p.user), withFields(s, p.fs))
    IN  withSendSlack(withSlackURL(news, p.slackURL), p.sendSlack)

----------------------------------------------------------------------------
(* stackdriver.Write up to the go statement: the entry and the fields it   *)
(* hands to the inner core, whether it starts a notification goroutine and *)
(* the URL it passes to it.                                                *)

writeMessage(ent) ==
    IF ent.LoggerName # EmptyStr /\ ent.LoggerName # Str("unknown")
    THEN [ent EXCEPT !.Message = ent.LoggerName \o Str(": ") \o ent.Message]
    ELSE ent

\* a Write that puts the fields of the scope first
writeFieldsScopeFirst(s, p) == s.fields \o p.fs

writeFields(s, p) == p.fs \o s.fields

writeUser(s, user) == IF user = EmptyStr THEN s.user ELSE user

writeMetadata(s, ent, user) ==
    << zapObject(sourceLocationKey, sourceLocationFromEntry(ent)),
       zapObject(serviceContextKey, s.svcCtx),
       zapObject(contextKey, errorReportingContext(reportLocationFromEntry(ent), user)) >>

\* a Write that lets the scope's directive override slack=false
writeSendsDespiteDisable(s, sendSlack) ==
    sendSlack = enableSlack \/ s.enableSlack

writeSends(s, sendSlack) ==
    sendSlack = enableSlack \/ (sendSlack = defaultSlack /\ s.enableSlack)

writeSlackURL(s, p) == p.slackURL

WriteCore(s, ent0, fields) ==
    LET ent == writeMessage(ent0)
        p == parseFields(s, fields, <<ent.Message>>)
        user == writeUser(s, p.user)
    IN  [ent |-> ent, fs |-> writeFields(s, p) \o writeMetadata(s, ent, user),
         slackURL |-> writeSlackURL(s, p), send |-> writeSends(s, p.sendSlack)]

----------------------------------------------------------------------------
(* The slack notifier: levelColorMap, slackRetrier.Retry and the steps of  *)
(* sendSlackNotification.                                                  *)

\* a table with a colour for DPanic too
levelColorMapAllLevels ==
    [l \in {"DebugLevel", "InfoLevel", "WarnLevel", "ErrorLevel", "DPanicLevel",
            "FatalLevel", "PanicLevel"} |->
        CASE l = "DebugLevel" -> "#2196F3"
          [] l = "InfoLevel" -> "#9E9E9E"
          [] l = "WarnLevel" -> "#FF9800"
          [] OTHER -> "#D50000"]

levelColorMap ==
    [l \in {"DebugLevel", "InfoLevel", "WarnLevel", "ErrorLevel", "FatalLevel",
            "PanicLevel"} |->
        CASE l = "DebugLevel" -> "#2196F3"
          [] l = "InfoLevel" -> "#9E9E9E"
          [] l = "WarnLevel" -> "#FF9800"
          [] OTHER -> "#D50000"]

\* color, ok := levelColorMap[level]: a level without entry gives "" and false
levelColor(level) ==
    IF level \in DOMAIN levelColorMap
    THEN [ok |-> TRUE, color |-> levelColorMap[level]]
    ELSE [ok |-> FALSE, color |-> ""]

\* defaultRetrier = &slackRetrier{max: 10}
defaultRetrierMax == 10

\* The errors slack.PostWebhookContext may return, by what Retry asks of them:
\* whether errors.As finds a *slack.RateLimitedError in the chain (and its
\* RetryAfter, in seconds), and whether the error has a Retryable method.
GenericError == [rateLimited |-> FALSE, RetryAfter |-> 0, retryable |-> "none"]

RateLimitedError == [rateLimited |-> TRUE, RetryAfter |-> 2, retryable |-> "none"]

WrappedRateLimitedError == [rateLimited |-> TRUE, RetryAfter |-> 3, retryable |-> "false"]

NonRetryableError == [rateLimited |-> FALSE, RetryAfter |-> 0, retryable |-> "false"]

RetryableError == [rateLimited |-> FALSE, RetryAfter |-> 0, retryable |-> "true"]

\* slackRetrier.Retry. backoff stands for r.bo.Backoff(n): defaultRetrier has
\* no bo, so the call is made on a nil *backoff.Backoff and either yields a
\* duration ("dur") or panics ("panic").
\* errorf tells whether Retry wrote its grpclog.Errorf message. Durations are
\* in seconds; BackoffDur stands for the duration the schedule yields.
BackoffDur == 1

\* a Retry that takes the delay after a rate-limit failure from the schedule
RetryOnSchedule(n, err, backoff) ==
    IF n >= defaultRetrierMax THEN [decision |-> "stop", dur |-> 0, errorf |-> FALSE]
    ELSE IF err.rateLimited
    THEN [decision |-> "retry", dur |-> BackoffDur, errorf |-> FALSE]
    ELSE IF err.retryable = "false" THEN [decision |-> "stop", dur |-> 0, errorf |-> TRUE]
    ELSE IF backoff = "panic" THEN [decision |-> "panic", dur |-> 0, errorf |-> FALSE]
    ELSE [decision |-> "retry", dur |-> BackoffDur, errorf |-> FALSE]

Retry(n, err, backoff) ==
    IF n >= defaultRetrierMax THEN [decision |-> "stop", dur |-> 0, errorf |-> FALSE]
    ELSE IF err.rateLimited
    THEN [decision |-> "retry", dur |-> err.RetryAfter, errorf |-> FALSE]
    ELSE IF err.retryable = "false" THEN [decision |-> "stop", dur |-> 0, errorf |-> TRUE]
    ELSE IF backoff = "panic" THEN [decision |-> "panic", dur |-> 0, errorf |-> FALSE]
    ELSE [decision |-> "retry", dur |-> BackoffDur, errorf |-> FALSE]

----------------------------------------------------------------------------
(* slackEncoder: the rendering of the fields into slack text blocks.       *)

\* The chunks the rendered texts are made of, in the order of their bytes
\* ("FENCE" stands for the three backquotes of a code block, which come after
\* the capitals and before the small letters). No chunk is the beginning of
\* another one, so that comparing two texts chunk by chunk is Go's < on the
\* strings.
ByteOrder ==
    <<"\n", "!", "*", "1", "2", "Error", "FENCE", "a", "b", "error", "false",
      "logging.googleapis.com/labels", "marshal failed", "obj", "ref", "true",
      "x", "yaml", "{}\n">>

Rank(chunk) == CHOOSE i \in 1..Len(ByteOrder) : ByteOrder[i] = chunk

\* s1 < s2 of Go strings
RECURSIVE StrLess(_, _)
StrLess(s1, s2) ==
    IF s2 = <<>> THEN FALSE
    ELSE IF s1 = <<>> THEN TRUE
    ELSE IF Head(s1) = Head(s2) THEN StrLess(Tail(s1), Tail(s2))
    ELSE Rank(Head(s1)) < Rank(Head(s2))

\* yaml.Marshal(value): the structs of this package have unexported fields
\* only and come out as "{}\n"; labels is a slice of zapcore.Field; an object
\* of the application comes out as its type decides, or fails
yamlMarshal(value) ==
    CASE value.kind \in {"sourceLocation", "reportLocation", "errorReportingContext"} ->
             [err |-> FALSE, buf |-> Str("{}\n")]
      [] value.kind = "app" /\ value.yaml = "empty" -> [err |-> FALSE,
                                                        buf |-> Str("{}\n")]
      [] value.kind = "app" /\ value.yaml = "fail" -> [err |-> TRUE, buf |-> EmptyStr]
      [] OTHER -> [err |-> FALSE, buf |-> Str("yaml")]

NoEncoder == [Fields |-> <<>>, ErrField |-> <<>>]

\* fmt.Sprintf("*%s*\n%s", key, value); label keeps the key the block was made for
textBlock(key, value) ==
    [Type |-> "mrkdwn", Text |-> Str("*") \o key \o <<"*", "\n">> \o value, label |-> key]

\* fmt.Sprintf with the value between two fences
codeBlock(key, buf) == textBlock(key, Str("FENCE") \o buf \o Str("FENCE"))

addField(enc, key, field) ==
    IF key = Str("error") THEN [enc EXCEPT !.ErrField = <<field>>]
    ELSE [enc EXCEPT !.Fields = Append(@, field)]

AddObject(enc, key, value) ==
    LET y == yamlMarshal(value)
    IN  IF key = serviceContextKey THEN [err |-> FALSE, enc |-> enc]
        ELSE IF y.err THEN [err |-> TRUE, enc |-> enc]
        ELSE IF y.buf \in {Str("{}\n"), Str("{}"), EmptyStr} THEN [err |-> FALSE,
                                                                   enc |-> enc]
        ELSE [err |-> FALSE, enc |-> addField(enc, key, codeBlock(key, y.buf))]

AddReflected(enc, key, value) ==
    LET y == yamlMarshal(value)
    IN  IF y.err THEN [err |-> TRUE, enc |-> enc]
        ELSE [err |-> FALSE, enc |-> addField(enc, key, codeBlock(key, y.buf))]

AddString(enc, key, value) == addField(enc, key, textBlock(key, value))

\* fmt.Sprintf("*%s*\n%t", key, value)
AddBool(enc, key, value) ==
    addField(enc, key, textBlock(key, IF value THEN Str("true") ELSE Str("false")))

\* field.AddTo(enc) of zapcore: the method of the encoder for the field's
\* type; when that method fails, AddTo adds the failure as the string field
\* <key>Error and returns nothing
fieldAddTo(enc, f) ==
    LET r == CASE f.Type = "StringType" ->
                      [err |-> FALSE, enc |-> AddString(enc, f.Key, f.String)]
               [] f.Type = "BoolType" ->
                      [err |-> FALSE, enc |-> AddBool(enc, f.Key, f.Integer = 1)]
               [] f.Type = "ObjectMarshalerType" -> AddObject(enc, f.Key, f.Interface)
               [] f.Type = "ReflectType" -> AddReflected(enc, f.Key, f.Interface)
               [] f.Type = "ErrorType" ->
                      [err |-> FALSE, enc |-> AddString(enc, f.Key, f.Interface.msg)]
               [] OTHER -> [err |-> FALSE, enc |-> enc]
    IN  IF r.err THEN AddString(r.enc, f.Key \o Str("Error"), Str("marshal failed"))
        ELSE r.enc

RECURSIVE encodeFields(_, _)
encodeFields(enc, fields) ==
    IF fields = <<>> THEN enc
    ELSE encodeFields(fieldAddTo(enc, Head(fields)), Tail(fields))

blockLess(f1, f2) == StrLess(f1.Text, f2.Text)

\* enc.sort(): sort.Slice by the Text of the blocks
encSort(enc) == [enc EXCEPT !.Fields = SortSeq(@, blockLess)]

\* sendSlackNotification from the encoder to the payload: the pinned error
\* block goes to the head, the other blocks to a section of their own
buildPayload(s, ent, fields) ==
    LET enc == encSort(encodeFields(NoEncoder, fields))
    IN  [color |-> levelColor(ent.Level).color,
         message |-> ent.Message,
         service |-> s.svcCtx.Service,
         version |-> s.svcCtx.Version,
         pinned |-> enc.ErrField,
         body |-> enc.Fields]

NoPayload ==
    [color |-> "", message |-> EmptyStr, service |-> EmptyStr, version |-> EmptyStr,
     pinned |-> <<>>, body |-> <<>>]

----------------------------------------------------------------------------
(* The inputs of a run. *)

Hook == Str("https://hook")

OtherHook == Str("https://other")

\* the fields an application passes to With and Write
FieldA == zapString(Str("a"), Str("1"))

FieldB == zapString(Str("b"), Str("2"))

LabelEnv == Label(Str("env"), Str("prod"))

SlackOff == zapBool(logKeySlackNotification, FALSE)

SlackOther == SlackTo(OtherHook)

Universe == {FieldA, FieldB, LabelEnv, SlackOn, SlackOff, SlackOther}

\* fields for the renderer: a key that continues the key "a" with a byte
\* below the star, the key "error" with an error and with a string, objects of
\* the application whose yaml form is full, empty or fails, a reflected value
FieldBang == zapString(<<"a", "!">>, Str("1"))

ErrorX == zapError(Str("error"), [kind |-> "error", msg |-> Str("x"), known |-> FALSE])

ErrorString == zapString(Str("error"), Str("x"))

ObjFull == zapObject(Str("obj"), [kind |-> "app", yaml |-> "full"])

ObjEmpty == zapObject(Str("obj"), [kind |-> "app", yaml |-> "empty"])

ObjBad == zapObject(Str("obj"), [kind |-> "app", yaml |-> "fail"])

RefBad == zapReflect(Str("ref"), [kind |-> "app", yaml |-> "fail"])

RenderUniverse ==
    {FieldA, FieldBang, FieldB, ErrorX, ErrorString, ObjFull, ObjEmpty, ObjBad, RefBad}

\* fields under the reserved keys "user" and zapx.slack, of the kind the
\* classifier reads and of another kind, and an error the parser knows
UserAlice == zapString(Str("user"), Str("alice"))

UserInt == zapInt(Str("user"), 7)

SlackInt == zapInt(logKeySlackNotification, 1)

ErrKnown == zapError(Str("b"), [kind |-> "error", msg |-> Str("x"), known |-> TRUE])

KindUniverse == {FieldA, UserAlice, UserInt, SlackInt, SlackOther, ErrKnown}

FieldLists(universe, n) == UNION {[1..k -> universe] : k \in 0..n}

TheCaller ==
    [Defined |-> TRUE, File |-> Str("main.go"), Line |-> 42, Function |-> Str("main.run")]

Entry(level, name) ==
    [Caller |-> TheCaller, LoggerName |-> name, Message |-> Str("boom"),
     Level |-> level]

\* the cores of a run are named by their position in cores
Cores == 1..Len(cores)

RECURSIVE SumLen(_, _)
SumLen(seq, i) ==
    IF i > Len(seq) THEN 0 ELSE Len(seq[i].fields) + SumLen(seq, i + 1)

\* the fields the With calls of the run were given
FieldsBound == SumLen(derived, 1)

\* tasks is a bag: two goroutines may be in the same state
OneTask(t) == SetToBag({t})

Running == BagToSet(tasks)

\* the With-derivation chain of core c: c, the cores it was derived from and
\* the cores derived from it
RECURSIVE Ancestors(_)
Ancestors(c) ==
    IF derived[c].from = 0 THEN {c} ELSE {c} \cup Ancestors(derived[c].from)

Chain(c) == {d \in Cores : c \in Ancestors(d) \/ d \in Ancestors(c)}

----------------------------------------------------------------------------
(* The state after Zap(level, opts...). *)

ZapCore(slackURL) ==
    [enableSlack |-> FALSE, user |-> EmptyStr, errorPraser |-> FALSE,
     slackURL |-> slackURL, fields |-> <<>>, projectID |-> EmptyStr,
     svcCtx |-> [kind |-> "serviceContext", Service |-> Str("unknown"),
                 Version |-> Str("unknown")]]

NoWrite ==
    [err |-> "nil", ent |-> Entry("InfoLevel", EmptyStr), fs |-> <<>>,
     slackURL |-> EmptyStr, fields |-> <<>>, send |-> FALSE, pc |-> "idle", core |-> 0,
     written |-> Entry("InfoLevel", EmptyStr), started |-> 0, innerWrites |-> 0,
     innerErr |-> "nil"]

NoSync ==
    [err |-> "nil", pc |-> "idle", core |-> 0, innerErr |-> "nil",
     overlapped |-> FALSE, pending |-> FALSE, innerSyncs |-> 0]

Init ==
    /\ cores \in {<<ZapCore(url)>> : url \in {EmptyStr, Hook}}
    /\ derived = <<[fields |-> <<>>, from |-> 0]>>
    /\ slackWG = <<0>>
    /\ tasks = EmptyBag
    /\ wr = NoWrite
    /\ sy = NoSync
    /\ crashed = FALSE
    /\ grpclog = {}

\* Zap(level, WithSlackURL(Hook))
InitScope == Init /\ cores[1].slackURL = Hook

\* Zap(level, WithSlackURL(Hook), WithErrorParser(parser))
InitKinds ==
    /\ cores = <<[ZapCore(Hook) EXCEPT !.errorPraser = TRUE]>>
    /\ derived = <<[fields |-> <<>>, from |-> 0]>>
    /\ slackWG = <<0>>
    /\ tasks = EmptyBag
    /\ wr = NoWrite
    /\ sy = NoSync
    /\ crashed = FALSE
    /\ grpclog = {}

----------------------------------------------------------------------------
(* The operations. *)

\* a With that also updates s in place
withCoresInPlace(cs, c, fields) ==
    Append([cs EXCEPT ![c] = WithCore(cs[c], fields)], WithCore(cs[c], fields))

\* With allocates the struct it returns and leaves s, which is cs[c], alone
withCores(cs, c, fields) == Append(cs, WithCore(cs[c], fields))

\* s.With(fields), s being cores[c]
With(c, fields) ==
    /\ ~crashed
    /\ Len(cores) < MaxCores
    /\ cores' = withCores(cores, c, fields)
    /\ derived' = Append(derived, [fields |-> fields, from |-> c])
    /\ slackWG' = Append(slackWG, 0)
    /\ UNCHANGED <<tasks, wr, sy, crashed, grpclog>>

\* s.slackWG.Add(1)
taskAdd(wg, c) == [wg EXCEPT ![c] = @ + 1]

\* the goroutine `go s.sendSlackNotification(slackURL, ent, fs)` starts
NewTask(c, out) ==
    [ent |-> out.ent, fields |-> out.fs, n |-> 0, dur |-> 0, pc |-> "start",
     core |-> c, slackurl |-> out.slackURL, payload |-> NoPayload]

\* s.Write(ent, fields) up to the call of the inner core. History: wr keeps
\* the arguments (core, ent, fields), the entry and the fields made for the
\* inner core (written, fs), the outcome of the test before the go statement
\* (send), the URL given to the goroutine and how many goroutines were started.
WriteBegin(c, ent, fields) ==
    /\ ~crashed
    /\ wr.pc # "parsed"
    /\ LET out == WriteCore(cores[c], ent, fields)
       IN  /\ out.send => BagCardinality(tasks) < MaxTasks
           /\ slackWG' = IF out.send THEN taskAdd(slackWG, c) ELSE slackWG
           /\ tasks' = IF out.send THEN tasks (+) OneTask(NewTask(c, out)) ELSE tasks
           /\ wr' = [NoWrite EXCEPT !.pc = "parsed", !.core = c, !.ent = ent,
                                    !.fields = fields, !.written = out.ent,
                                    !.fs = out.fs, !.send = out.send,
                                    !.slackURL = out.slackURL,
                                    !.started = BagCardinality(tasks') - BagCardinality(tasks)]
    /\ sy' = IF sy.pc = "waiting" THEN [sy EXCEPT !.overlapped = TRUE] ELSE sy
    /\ UNCHANGED <<cores, derived, crashed, grpclog>>

\* a Write that returns without calling the inner core once it has started a
\* notification
writeReturnSkipsInner(w, innerErr) ==
    IF w.send
    THEN [w EXCEPT !.pc = "returned", !.err = "nil"]
    ELSE [w EXCEPT !.pc = "returned", !.innerWrites = @ + 1, !.innerErr = innerErr,
                   !.err = innerErr]

\* return s.parent.Write(ent, fs): the inner core writes and answers innerErr
writeReturn(w, innerErr) ==
    [w EXCEPT !.pc = "returned", !.innerWrites = @ + 1, !.innerErr = innerErr,
              !.err = innerErr]

\* a Write that waits for the notifications of its core before it returns
writeReadyAfterWait(w, wg) == w.pc = "parsed" /\ wg[w.core] = 0

\* after the go statement nothing stands before return s.parent.Write
writeReady(w, wg) == w.pc = "parsed"

WriteEnd(innerErr) ==
    /\ ~crashed
    /\ writeReady(wr, slackWG)
    /\ wr' = writeReturn(wr, innerErr)
    /\ UNCHANGED <<cores, derived, slackWG, tasks, sy, crashed, grpclog>>

\* s.Sync() is called. History: sy.overlapped tells whether a Write call ran
\* while this Sync did (WriteBegin sets it too); when none did, every task
\* that runs during the Sync was started before it.
SyncBegin(c) ==
    /\ ~crashed
    /\ sy.pc # "waiting"
    /\ sy' = [NoSync EXCEPT !.pc = "waiting", !.core = c, !.overlapped = (wr.pc = "parsed")]
    /\ UNCHANGED <<cores, derived, slackWG, tasks, wr, crashed, grpclog>>

\* s.slackWG.Wait() of cores[c] returns
syncWaitOver(c) == slackWG[c] = 0

\* s.slackWG.Wait() returns, then return s.parent.Sync(). History: sy.pending
\* tells whether a task of the chain of cores[c] is still running then.
SyncEnd(innerErr) ==
    /\ ~crashed
    /\ sy.pc = "waiting"
    /\ syncWaitOver(sy.core)
    /\ sy' = [sy EXCEPT !.pc = "returned", !.innerSyncs = @ + 1, !.innerErr = innerErr,
                        !.err = innerErr,
                        !.pending = \E t \in Running : t.core \in Chain(sy.core)]
    /\ UNCHANGED <<cores, derived, slackWG, tasks, wr, crashed, grpclog>>

\* a sendSlackNotification without the deferred Done
taskDoneForgotten(wg, c) == wg

\* sendSlackNotification returns: the deferred s.slackWG.Done() runs
taskDone(wg, c) == [wg EXCEPT ![c] = @ - 1]

TaskReturns(t) ==
    /\ slackWG' = taskDone(slackWG, t.core)
    /\ tasks' = tasks (-) OneTask(t)

TaskMoves(t, pc, n, dur) ==
    tasks' = (tasks (-) OneTask(t))
                 (+) OneTask([t EXCEPT !.pc = pc, !.n = n, !.dur = dur])

\* grpclog.Errorf in Retry
retryLogs(log, r) == IF r.errorf THEN log \cup {"Errorf"} ELSE log

\* backoff.Invoke returned an error: grpclog.Infof
invokeFailed(log) == log \cup {"Infof"}

\* a sendSlackNotification that looks at the URL only
taskSkipsOnURL(t) == t.slackurl = EmptyStr

\* the two tests sendSlackNotification returns on before it builds anything
taskSkips(t) == t.slackurl = EmptyStr \/ ~levelColor(t.ent.Level).ok

\* sendSlackNotification up to backoff.Invoke: the two silent returns, or the
\* payload is built
TaskStart(t) ==
    /\ ~crashed
    /\ t.pc = "start"
    /\ IF taskSkips(t)
       THEN TaskReturns(t)
       ELSE /\ tasks' = (tasks (-) OneTask(t))
                          (+) OneTask([t EXCEPT !.pc = "send",
                                                !.payload = buildPayload(cores[t.core],
                                                                         t.ent, t.fields)])
            /\ UNCHANGED slackWG
    /\ UNCHANGED <<cores, derived, wr, sy, crashed, grpclog>>

\* backoff.Invoke calls send: slack.PostWebhookContext succeeds
TaskPosted(t) ==
    /\ ~crashed
    /\ t.pc = "send"
    /\ TaskReturns(t)
    /\ UNCHANGED <<cores, derived, wr, sy, crashed, grpclog>>

\* backoff.Invoke calls send, slack.PostWebhookContext fails with err, and
\* defaultRetrier.Retry decides
TaskFailed(t, err, backoff) ==
    /\ ~crashed
    /\ t.pc = "send"
    /\ LET r == Retry(t.n + 1, err, backoff)
       IN  CASE r.decision = "retry" ->
                    /\ TaskMoves(t, "sleep", t.n + 1, r.dur)
                    /\ UNCHANGED <<slackWG, crashed, grpclog>>
             [] r.decision = "stop" ->
                    /\ TaskReturns(t)
                    /\ grpclog' = invokeFailed(retryLogs(grpclog, r))
                    /\ UNCHANGED crashed
             [] OTHER ->
                    /\ TaskReturns(t)
                    /\ crashed' = TRUE
                    /\ UNCHANGED grpclog
    /\ UNCHANGED <<cores, derived, wr, sy>>

\* the pause of backoff.Invoke is over
TaskWakes(t) ==
    /\ ~crashed
    /\ t.pc = "sleep"
    /\ TaskMoves(t, "send", t.n, 0)
    /\ UNCHANGED <<cores, derived, slackWG, wr, sy, crashed, grpclog>>

\* the 10 s of context.WithTimeout are over during the pause: backoff.Invoke
\* returns the context's error, which is logged
TaskTimesOut(t) ==
    /\ ~crashed
    /\ t.pc = "sleep"
    /\ TaskReturns(t)
    /\ grpclog' = invokeFailed(grpclog)
    /\ UNCHANGED <<cores, derived, wr, sy, crashed>>

----------------------------------------------------------------------------
(* Spec: the notification goroutines of Zap's core for Error entries, the  *)
(* webhook answering or failing with an error that is retried or one that  *)
(* is not, next to a writer goroutine and a flusher goroutine that call    *)
(* Write and Sync on it concurrently.                                      *)

\* the levels of zapcore
Levels ==
    {"DebugLevel", "InfoLevel", "WarnLevel", "ErrorLevel", "DPanicLevel",
     "PanicLevel", "FatalLevel"}

\* no notification goroutine runs and no Write call was made
Quiet == tasks = EmptyBag /\ wr.pc = "idle"

WebhookErrors ==
    {GenericError, RateLimitedError, WrappedRateLimitedError, NonRetryableError,
     RetryableError}

DirectiveLists == FieldLists({SlackOn}, MaxDirectiveFields)

Next ==
    \/ \E fields \in DirectiveLists :
           WriteBegin(1, Entry("ErrorLevel", Str("unknown")), fields)
    \/ \E innerErr \in {"nil", "err"} : WriteEnd(innerErr)
    \/ SyncBegin(1)
    \/ \E innerErr \in {"nil", "err"} : SyncEnd(innerErr)
    \/ \E t \in Running : TaskStart(t)
    \/ \E t \in Running : TaskPosted(t)
    \/ \E t \in Running, err \in {GenericError, NonRetryableError},
             backoff \in {"dur", "panic"} :
           TaskFailed(t, err, backoff)
    \/ \E t \in Running : TaskWakes(t)
    \/ \E t \in Running : TaskTimesOut(t)

Spec == Init /\ [][Next]_vars

----------------------------------------------------------------------------
(* SpecRetry: one notification goroutine at a time, started by a Write on  *)
(* Zap's core, with every failure of the webhook and every outcome of the  *)
(* retries, next to the flusher goroutine.                                 *)

NextRetry ==
    \/ /\ Quiet
       /\ \E level \in Levels, fields \in DirectiveLists :
              WriteBegin(1, Entry(level, Str("unknown")), fields)
    \/ \E innerErr \in {"nil", "err"} : WriteEnd(innerErr)
    \/ SyncBegin(1)
    \/ \E innerErr \in {"nil", "err"} : SyncEnd(innerErr)
    \/ \E t \in Running : TaskStart(t)
    \/ \E t \in Running : TaskPosted(t)
    \/ \E t \in Running, err \in WebhookErrors, backoff \in {"dur", "panic"} :
           TaskFailed(t, err, backoff)
    \/ \E t \in Running : TaskWakes(t)
    \/ \E t \in Running : TaskTimesOut(t)

SpecRetry == Init /\ [][NextRetry]_vars

\* SpecRetryFair: SpecRetry with the goroutines scheduled. A goroutine that
\* can run does run: the task reaches backoff.Invoke, a call of the webhook
\* ends (with an answer or a failure), a pause ends (the timer fires or the
\* 10 s of the context are over), the inner write returns, and Wait returns
\* once the counter is zero. Which way a step ends is left open. SpecRetry
\* makes one Write call, so no further Write is issued after it.
SpecRetryFair ==
    /\ SpecRetry
    /\ WF_vars(\E innerErr \in {"nil", "err"} : WriteEnd(innerErr))
    /\ WF_vars(\E innerErr \in {"nil", "err"} : SyncEnd(innerErr))
    /\ WF_vars(\E t \in Running : TaskStart(t))
    /\ WF_vars(\E t \in Running :
                   \/ TaskPosted(t)
                   \/ \E err \in WebhookErrors, backoff \in {"dur", "panic"} :
                          TaskFailed(t, err, backoff))
    /\ WF_vars(\E t \in Running : TaskWakes(t) \/ TaskTimesOut(t))

----------------------------------------------------------------------------
(* SpecRender: one Write with slack=true and every list of fields for the  *)
(* renderer within the bound; its goroutine builds the payload and posts.  *)

NextRender ==
    \/ /\ Quiet
       /\ \E fields \in FieldLists(RenderUniverse, MaxRenderFields) :
              WriteBegin(1, Entry("ErrorLevel", Str("unknown")), <<SlackOn>> \o fields)
    \/ WriteEnd("nil")
    \/ \E t \in Running : TaskStart(t)
    \/ \E t \in Running : TaskPosted(t)

SpecRender == InitScope /\ [][NextRender]_vars

----------------------------------------------------------------------------
(* SpecSync: With, Write and Sync called concurrently on the cores of a    *)
(* run, the goroutines of With being free to run at any time. The webhook  *)
(* answers or fails for good.                                              *)

NextSync ==
    \/ \E c \in Cores, fields \in DirectiveLists : With(c, fields)
    \/ \E c \in Cores, fields \in DirectiveLists :
           WriteBegin(c, Entry("ErrorLevel", Str("unknown")), fields)
    \/ WriteEnd("nil")
    \/ \E c \in Cores : SyncBegin(c)
    \/ \E innerErr \in {"nil", "err"} : SyncEnd(innerErr)
    \/ \E t \in Running : TaskStart(t)
    \/ \E t \in Running : TaskPosted(t)
    \/ \E t \in Running : TaskFailed(t, NonRetryableError, "dur")

SpecSync == InitScope /\ [][NextSync]_vars

----------------------------------------------------------------------------
(* SpecScope: the scopes With derives and what Write makes of them, for    *)
(* every list of fields within the bounds: one chain a.With(x).With(y)...,  *)
(* each core of which may be written to, with one Write call, and the      *)
(* webhook answers.                                                        *)

NextScope ==
    \/ \E fields \in FieldLists(Universe, MaxFields - FieldsBound - Len(wr.fields)) :
           With(Len(cores), fields)
    \/ /\ Quiet
       /\ \E c \in Cores, fields \in FieldLists(Universe, MaxFields - FieldsBound) :
              WriteBegin(c, Entry("ErrorLevel", Str("unknown")), fields)
    \/ WriteEnd("nil")
    \/ \E t \in Running : TaskStart(t)
    \/ \E t \in Running : TaskPosted(t)

SpecScope == InitScope /\ [][NextScope]_vars

----------------------------------------------------------------------------
(* SpecKinds: SpecScope for fields under the reserved keys "user" and      *)
(* zapx.slack of every kind, and errors, on a core with an error parser.   *)

NextKinds ==
    \/ \E fields \in FieldLists(KindUniverse, MaxFields - FieldsBound - Len(wr.fields)) :
           With(Len(cores), fields)
    \/ /\ Quiet
       /\ \E c \in Cores, fields \in FieldLists(KindUniverse, MaxFields - FieldsBound) :
              WriteBegin(c, Entry("ErrorLevel", Str("unknown")), fields)
    \/ WriteEnd("nil")
    \/ \E t \in Running : TaskStart(t)
    \/ \E t \in Running : TaskPosted(t)

SpecKinds == InitKinds /\ [][NextKinds]_vars

----------------------------------------------------------------------------
(* What the claims speak of. *)

\* a field that parseFields reads as a slack directive
IsSlack(f) == f.Key = logKeySlackNotification /\ f.Type \in {"BoolType", "StringType"}

\* the directive a list of fields asks for: that of its last slack field
Directive(fields) ==
    LET slack == SelectSeq(fields, IsSlack)
        last == slack[Len(slack)]
    IN  IF slack = <<>> THEN "default"
        ELSE IF last.Type = "BoolType" /\ last.Integer # 1 THEN "disabled"
        ELSE "enabled"

LastSlack(fields) ==
    LET slack == SelectSeq(fields, IsSlack) IN slack[Len(slack)]

\* the fields given to the With calls that made core c, oldest first
RECURSIVE ChainInputs(_)
ChainInputs(c) ==
    IF derived[c].from = 0 THEN <<>>
    ELSE ChainInputs(derived[c].from) \o derived[c].fields

IsLabelInput(f) == HasPrefix(f.Key, logKeyLabelPrefix)

IsLabelsObject(f) == f.Key = labelsKey /\ f.Type = "ObjectMarshalerType"

\* a field whose key is neither reserved nor one of the objects Write adds
IsPlain(f) ==
    /\ ~IsLabelInput(f)
    /\ f.Key \notin {Str("user"), Str("stack_trace"), logKeyContextInfo,
                     logKeySlackNotification, labelsKey, sourceLocationKey,
                     serviceContextKey, contextKey}

Plain(fields) == SelectSeq(fields, IsPlain)

Stripped(fields) ==
    [i \in 1..Len(fields) |->
        zapString(TrimPrefix(fields[i].Key, logKeyLabelPrefix), fields[i].String)]

RunningOn(c) ==
    BagCardinality([t \in {u \in Running : u.core = c} |-> CopiesIn(t, tasks)])

----------------------------------------------------------------------------
(* The claims. *)

\* C1: a Write call that has returned called the inner core's Write exactly
\* once and returned what that call returned, whatever its notification task
\* and the earlier ones did; before it reaches the inner core it has not
\* called it.
C1_WriteForwardsOnce ==
    /\ wr.pc = "parsed" => wr.innerWrites = 0
    /\ wr.pc = "returned" => wr.innerWrites = 1 /\ wr.err = wr.innerErr

\* a Write that started a task has returned the inner core's error while a
\* task is between two failed attempts
C1_Witness ==
    /\ wr.pc = "returned" /\ wr.started = 1 /\ wr.err = "err"
    /\ \E t \in Running : t.pc = "sleep"

\* C2: Write starts one notification task when the directive of the call
\* resolves to send and none otherwise. The last slack field of the call
\* decides: true or a string enables, false disables even on a scope whose
\* directive is enabled; without a slack field the scope's directive decides.
\* After true the task is given the core's URL, after a string that string.
C2_SpawnIffSend ==
    wr.pc # "idle" =>
        LET s == cores[wr.core]
            d == Directive(wr.fields)
            sends == d = "enabled" \/ (d = "default" /\ s.enableSlack)
        IN  /\ wr.started = IF sends THEN 1 ELSE 0
            /\ (d = "enabled" /\ LastSlack(wr.fields).Type = "BoolType")
                   => wr.slackURL = s.slackURL
            /\ (d = "enabled" /\ LastSlack(wr.fields).Type = "StringType")
                   => wr.slackURL = LastSlack(wr.fields).String

\* slack=false in the call, on a core whose directive is enabled: no task
C2_Witness ==
    /\ wr.pc = "returned" /\ wr.started = 0
    /\ Directive(wr.fields) = "disabled"
    /\ cores[wr.core].enableSlack

\* C3 (as claimed): a core made by With has the directive and the URL of the
\* core With was called on, unless the fields of that With call set them.
C3_DirectiveInherited ==
    \A i \in Cores :
        derived[i].from # 0 =>
            LET parent == cores[derived[i].from]
                d == Directive(derived[i].fields)
            IN  /\ d = "default" => cores[i].enableSlack = parent.enableSlack
                /\ (\A k \in 1..Len(derived[i].fields) :
                        ~(IsSlack(derived[i].fields[k]) /\ derived[i].fields[k].Type = "StringType"))
                       => cores[i].slackURL = parent.slackURL

\* C4 (as claimed): a Write without a slack field that sends through the
\* directive of its scope gives the task the URL of the scope.
C4_ScopeDestination ==
    (wr.pc # "idle" /\ Directive(wr.fields) = "default" /\ wr.started = 1)
        => wr.slackURL = cores[wr.core].slackURL

\* C5: on a core made by With with slack=false, a Write without a slack
\* field starts no notification task.
C5_DisabledScope ==
    ( /\ wr.pc # "idle"
      /\ derived[wr.core].from # 0
      /\ Directive(derived[wr.core].fields) = "disabled"
      /\ Directive(wr.fields) = "default" )
        => wr.started = 0 /\ ~wr.send

\* such a Write has returned, With having been called on a core whose
\* directive was enabled and whose URL is set
C5_Witness ==
    /\ wr.pc = "returned"
    /\ derived[wr.core].from # 0
    /\ Directive(derived[wr.core].fields) = "disabled"
    /\ Directive(wr.fields) = "default"
    /\ cores[derived[wr.core].from].enableSlack
    /\ cores[wr.core].slackURL = Hook
    /\ wr.started = 0

\* C6 (as claimed): the plain fields Write forwards are those of the With
\* calls, oldest first, and then those of the call: x, y, f.
C6_ScopeThenCall ==
    wr.pc # "idle" =>
        Plain(wr.fs) = Plain(ChainInputs(wr.core) \o wr.fields)

\* C6 (amended): the plain fields Write forwards are those of the call and
\* then those of the With calls, oldest first: f, x, y.
C6_CallThenScope ==
    wr.pc # "idle" =>
        Plain(wr.fs) = Plain(wr.fields \o ChainInputs(wr.core))

\* a.With(x).With(y).Write(f) has returned, x, y and f holding a plain field each
C6_Witness ==
    /\ wr.pc = "returned" /\ wr.core = 3
    /\ derived[3].from = 2 /\ derived[2].from = 1
    /\ Plain(derived[2].fields) # <<>>
    /\ Plain(derived[3].fields) # <<>>
    /\ Plain(wr.fields) # <<>>
    /\ Plain(derived[2].fields) # Plain(derived[3].fields)

\* C7: no step changes a core that exists, so that the Write call recorded in
\* wr, made again in any later state, forwards the same fields and decides the
\* same about the notification.
C7_CoresKept ==
    [][ /\ \A i \in Cores : cores'[i] = cores[i]
        /\ wr'.pc # "idle" =>
               LET again == WriteCore(cores'[wr'.core], wr'.ent, wr'.fields)
               IN  /\ again.fs = wr'.fs
                   /\ again.send = wr'.send
                   /\ again.slackURL = wr'.slackURL ]_vars

\* a Write on a core has returned and With has derived a core from that core
\* with fields of its own
C7_Witness ==
    /\ wr.pc = "returned"
    /\ \E i \in Cores :
           /\ derived[i].from = wr.core
           /\ cores[i].fields # cores[wr.core].fields
           /\ cores[i].enableSlack # cores[wr.core].enableSlack

\* C8 (as claimed): when label fields reach a Write, through the call or
\* through With, the forwarded fields hold exactly one labels object, with one
\* entry per label field, prefix stripped, and no label field outside it;
\* without label fields there is no labels object.
C8_OneLabelsObject ==
    wr.pc # "idle" =>
        LET ins == SelectSeq(ChainInputs(wr.core) \o wr.fields, IsLabelInput)
            objs == SelectSeq(wr.fs, IsLabelsObject)
        IN  /\ Len(objs) = IF ins = <<>> THEN 0 ELSE 1
            /\ ins # <<>> =>
                   {objs[1].Interface.fields[i] : i \in 1..Len(objs[1].Interface.fields)}
                       = {Stripped(ins)[i] : i \in 1..Len(ins)}
            /\ SelectSeq(wr.fs, IsLabelInput) = <<>>

\* C9 (as claimed): when Sync reaches the inner core, no task of the chain of
\* its core is running (no Write call having run during the Sync).
C9_SyncWaitsForChain ==
    (sy.pc = "returned" /\ ~sy.overlapped) => ~sy.pending

\* C10: the counter of a core's WaitGroup is the number of its tasks that
\* have not returned, and is never negative.
C10_CounterIsRunning ==
    \A c \in Cores : slackWG[c] = RunningOn(c) /\ slackWG[c] >= 0

\* two tasks run, one of them before its last attempt
C10_Witness ==
    /\ slackWG[1] = 2
    /\ \E t \in Running : t.pc = "send" /\ t.n = defaultRetrierMax - 1

\* the task t of this state is the task u (of t's Write) in the next state
Becomes(t, u) ==
    /\ CopiesIn(t, tasks') = CopiesIn(t, tasks) - 1
    /\ CopiesIn(u, tasks') = CopiesIn(u, tasks) + 1

\* the task t of this state has returned in the next state
Returned(t) ==
    /\ CopiesIn(t, tasks') = CopiesIn(t, tasks) - 1
    /\ BagCardinality(tasks') = BagCardinality(tasks) - 1

Backoffs == {"dur", "panic"}

\* C12: when an attempt below the limit fails with a rate-limit failure, bare
\* or wrapped, the task pauses for exactly the RetryAfter of the failure and
\* its attempt counter goes up by one.
C12_RateLimitDelay ==
    [][\A t \in Running, err \in WebhookErrors, backoff \in Backoffs :
           (TaskFailed(t, err, backoff) /\ err.rateLimited
                                        /\ t.n + 1 < defaultRetrierMax)
               => /\ Becomes(t, [t EXCEPT !.pc = "sleep", !.n = t.n + 1,
                                          !.dur = err.RetryAfter])
                  /\ ~crashed']_vars

\* after a rate-limit failure of attempt 1 with RetryAfter = 2 s the task
\* pauses for 2 s before attempt 2
C12_Witness ==
    \E t \in Running : t.pc = "sleep" /\ t.n = 1 /\ t.dur = RateLimitedError.RetryAfter

\* C13 (as claimed): a failure that is not a rate-limit one and whose
\* Retryable method answers false ends the task at once, is reported to
\* grpclog and changes nothing for the callers of Write and Sync; a failure
\* without a Retryable method, or whose method answers true, makes the task
\* pause for the duration of the backoff schedule while attempts remain.
C13_RetryableDecides ==
    [][\A t \in Running, err \in WebhookErrors, backoff \in Backoffs :
           (TaskFailed(t, err, backoff) /\ ~err.rateLimited)
               => IF err.retryable = "false"
                  THEN /\ Returned(t)
                       /\ grpclog' # {}
                       /\ wr' = wr /\ sy' = sy /\ ~crashed'
                  ELSE t.n + 1 < defaultRetrierMax
                           => /\ Becomes(t, [t EXCEPT !.pc = "sleep", !.n = t.n + 1,
                                                      !.dur = BackoffDur])
                              /\ ~crashed']_vars

\* C14: a task whose URL is empty or whose entry's level has no colour never
\* reaches the webhook: it returns at once, writes nothing to grpclog, makes
\* no attempt, and the Write and Sync calls are as they were.
C14_SilentReturn ==
    [][/\ \A t \in Running :
              (TaskStart(t) /\ (t.slackurl = EmptyStr
                                    \/ t.ent.Level \notin DOMAIN levelColorMap))
                  => /\ Returned(t)
                     /\ grpclog' = grpclog
                     /\ wr' = wr /\ sy' = sy /\ ~crashed'
       /\ \A u \in BagToSet(tasks') :
              u.pc \in {"send", "sleep"}
                  => u.slackurl # EmptyStr /\ u.ent.Level \in DOMAIN levelColorMap]_vars

\* on a core without URL a Write with slack=true started a task, which has
\* returned, and the Write has returned the inner core's answer
C14_Witness ==
    /\ cores[1].slackURL = EmptyStr
    /\ wr.pc = "returned" /\ wr.started = 1 /\ wr.innerWrites = 1
    /\ tasks = EmptyBag /\ grpclog = {}

\* the encoder method of field f fails
FailsToSerialize(f) ==
    \/ f.Type = "ObjectMarshalerType" /\ AddObject(NoEncoder, f.Key, f.Interface).err
    \/ f.Type = "ReflectType" /\ AddReflected(NoEncoder, f.Key, f.Interface).err

\* C15 (as claimed): when an Object or Reflected field of a task fails to
\* serialize, the task returns without reaching the webhook, the failure is
\* written to grpclog, and the Write call is as it was.
C15_RenderFailureAborts ==
    [][\A t \in Running :
           (TaskStart(t) /\ \E i \in 1..Len(t.fields) : FailsToSerialize(t.fields[i]))
               => /\ Returned(t)
                  /\ grpclog' # {}
                  /\ wr' = wr]_vars

\* the object form of field f is empty
IsEmptyObject(f) ==
    f.Type = "ObjectMarshalerType" /\ yamlMarshal(f.Interface).buf = Str("{}\n")

IsErrorKeyed(f) == f.Key = Str("error")

IsBodyField(f) == ~IsErrorKeyed(f) /\ ~IsEmptyObject(f)

\* C16 (as claimed): in the payload of a task the body blocks are in the
\* alphabetical order of their keys, no block of the body has the key
\* "error" and a field with that key is in the pinned slot whatever its kind,
\* a field whose object form is empty has no block, and every other field
\* has exactly one block.
C16_BodySortedByLabel ==
    \A t \in Running :
        t.pc = "send" =>
            LET body == t.payload.body
            IN  /\ \A i, j \in 1..Len(body) :
                       i < j => ~StrLess(body[j].label, body[i].label)
                /\ \A i \in 1..Len(body) : body[i].label # Str("error")
                /\ (\E i \in 1..Len(t.fields) : IsErrorKeyed(t.fields[i]))
                       => /\ t.payload.pinned # <<>>
                          /\ t.payload.pinned[1].label = Str("error")
                /\ Len(body) = Len(SelectSeq(t.fields, IsBodyField))

\* what the classifier makes of the fields of SpecScope: the plain fields in
\* their order, then one labels object when there are label fields
Classified(fields) ==
    LET ls == SelectSeq(fields, IsLabelInput)
    IN  Plain(fields)
            \o (IF ls = <<>> THEN <<>>
                ELSE <<zapObject(labelsKey, [kind |-> "labels", fields |-> Stripped(ls)])>>)

\* the inherited fields of core c: its parent's, then what the classifier
\* made of the fields of the With call that derived c
RECURSIVE Inherited(_)
Inherited(c) ==
    IF derived[c].from = 0 THEN <<>>
    ELSE Inherited(derived[c].from) \o Classified(derived[c].fields)

MetadataKeys == <<sourceLocationKey, serviceContextKey, contextKey>>

\* C17: the fields Write forwards are the classifier's output for the fields
\* of the call, then the inherited fields of the core (the parent's, then the
\* classified fields of each With call, in order, duplicates kept), then one
\* source-location, one service-context and one error-reporting context
\* object, which are there on every Write and nowhere else in the sequence.
C17_ForwardedSequence ==
    wr.pc # "idle" =>
        LET n == Len(wr.fs)
        IN  /\ n >= 3
            /\ SubSeq(wr.fs, 1, n - 3) = Classified(wr.fields) \o Inherited(wr.core)
            /\ cores[wr.core].fields = Inherited(wr.core)
            /\ \A k \in 1..3 :
                   /\ wr.fs[n - 3 + k].Key = MetadataKeys[k]
                   /\ wr.fs[n - 3 + k].Type = "ObjectMarshalerType"
                   /\ Cardinality({i \in 1..n : wr.fs[i].Key = MetadataKeys[k]}) = 1

\* a.With(x).With(y).Write(f) has returned, x and y holding the same field and
\* f a field of its own
C17_Witness ==
    /\ wr.pc = "returned" /\ wr.core = 3
    /\ derived[3].from = 2 /\ derived[2].from = 1
    /\ derived[2].fields # <<>> /\ derived[2].fields = derived[3].fields
    /\ Classified(wr.fields) # <<>>
    /\ Classified(wr.fields) # Classified(derived[3].fields)

\* C18: a Write that is past its go statement can make the inner write and
\* return whatever its task and the earlier tasks do, also when none of them
\* ever takes a step, with any number of them running; a Sync cannot return
\* while a task of its core runs.
C18_WriteNeverWaits ==
    /\ (wr.pc = "parsed" /\ ~crashed) => ENABLED WriteEnd("nil")
    /\ (sy.pc = "waiting" /\ RunningOn(sy.core) > 0) => ~ENABLED SyncEnd("nil")

\* two Writes have started a task each and the second one has returned, no
\* task having taken a step, while a Sync waits
C18_Witness ==
    /\ wr.pc = "returned" /\ wr.started = 1 /\ wr.innerWrites = 1
    /\ BagCardinality(tasks) >= 2
    /\ \A t \in Running : t.pc = "start"
    /\ sy.pc = "waiting"

\* the levels other than DPanic
ColouredLevels ==
    {"DebugLevel", "InfoLevel", "WarnLevel", "ErrorLevel", "PanicLevel", "FatalLevel"}

\* C20: the task of a DPanic entry returns before the webhook, whatever its
\* URL, and no task of a DPanic entry is ever at the webhook; the task of a
\* Debug, Info, Warn, Error, Panic or Fatal entry with a URL goes on to the
\* delivery with its payload built.
C20_DPanicNeverSent ==
    [][/\ \A t \in Running :
              TaskStart(t)
                  => IF t.ent.Level = "DPanicLevel"
                     THEN Returned(t) /\ grpclog' = grpclog
                     ELSE (t.ent.Level \in ColouredLevels /\ t.slackurl # EmptyStr)
                              => \E u \in BagToSet(tasks') :
                                     /\ u.pc = "send" /\ u.ent = t.ent
                                     /\ u.payload # NoPayload
                                     /\ Becomes(t, u)
       /\ \A u \in BagToSet(tasks') :
              u.pc \in {"send", "sleep"} => u.ent.Level # "DPanicLevel"]_vars

\* on a core with a URL a DPanic Write with slack=true started a task, and
\* the task has returned
C20_Witness ==
    /\ cores[1].slackURL # EmptyStr
    /\ wr.ent.Level = "DPanicLevel" /\ wr.fields = <<SlackOn>>
    /\ wr.started = 1 /\ wr.pc = "returned"
    /\ tasks = EmptyBag /\ grpclog = {}

\* C19 (as claimed): with no further Write, every task that was started
\* comes to its end, also when the webhook fails at every attempt, and a
\* Sync that waits calls the inner Sync and returns.
C19_SyncEventuallyReturns ==
    /\ (tasks # EmptyBag) ~> (tasks = EmptyBag)
    /\ (sy.pc = "waiting") ~> (sy.pc = "returned" /\ sy.innerSyncs = 1)

\* a field under the key "user" that is not a string, or under zapx.slack
\* that is neither a boolean nor a string
IsOdd(f) ==
    \/ f.Key = Str("user") /\ f.Type # "StringType"
    \/ f.Key = logKeySlackNotification /\ f.Type \notin {"BoolType", "StringType"}

NotOdd(f) == ~IsOdd(f)

\* a field whose key is not reserved
IsFree(f) ==
    /\ ~HasPrefix(f.Key, logKeyLabelPrefix)
    /\ f.Key \notin {Str("user"), Str("stack_trace"), logKeyContextInfo,
                     logKeySlackNotification}

\* the fields with a free key, in their order, an error the parser of s
\* knows being replaced by the parser's object under the same key
Forwarded(s, fields) ==
    LET free == SelectSeq(fields, IsFree)
    IN  [i \in 1..Len(free) |->
            IF s.errorPraser /\ free[i].Type = "ErrorType" /\ free[i].Interface.known
            THEN zapObject(free[i].Key, [kind |-> "parsedError", of |-> free[i].Interface.msg])
            ELSE free[i]]

IsUserString(f) == f.Key = Str("user") /\ f.Type = "StringType"

\* the user after the fields: that of the last string field keyed "user",
\* or the one before
UserAfter(fields, user) ==
    LET us == SelectSeq(fields, IsUserString)
    IN  IF us = <<>> THEN user ELSE us[Len(us)].String

====
